---- MODULE Spec2Model ----
(***************************************************************************)
(* The upload-and-classify controller of the plant disease detection       *)
(* client (src/src/App.tsx): the React state of the App component, its     *)
(* event handlers, and the one outbound request POST /predict.             *)
(*                                                                         *)
(* Strings the code inspects character by character (media types, raw      *)
(* labels) are sequences of one-character strings; strings it only stores  *)
(* and compares are TLA+ strings.                                          *)
(***************************************************************************)
EXTENDS Integers, Sequences, FiniteSets, TLC

VARIABLES currentPage, selectedFile, previewUrl, isLoading, result, error,
          isDragOver, inflight, urlCount, lastEvent,
          rawLabel, shownName, health, part000, part001

ctrl == <<selectedFile, previewUrl, isLoading, result, error>>
\* a label handed to formatDiseaseName and getHealthStatus on its own, and
\* what they return for it
labelVars == <<rawLabel, shownName, health>>
\* the controllers of src/unnamed/part_000 and src/unnamed/part_001, run
\* beside the one of src/src/App.tsx
variants == <<part000, part001>>
vars == <<currentPage, selectedFile, previewUrl, isLoading, result, error,
          isDragOver, inflight, urlCount, lastEvent, labelVars, variants>>

(***************************************************************************)
(* Bounds                                                                  *)
(***************************************************************************)
\* number of object URLs (previews) created in one run
MaxUrls == 3
\* number of files carried by one drop event
MaxDrop == 2
\* length of the labels over LabelAlphabet handed to formatDiseaseName
MaxLabelLen == 4
\* number of fragments joined into a label handed to getHealthStatus
MaxFragments == 3

(***************************************************************************)
(* Values                                                                  *)
(***************************************************************************)
\* useState<File | null>(null)
NoFile == "<null>"
\* useState<string>('')
NoUrl == [id |-> 0, file |-> NoFile]
\* useState<PredictionResult | null>(null)
NoResult == [null |-> TRUE]
\* a property that is missing from an object reads as undefined
Undefined == "<undefined>"

Pages == {"home", "predict", "about"}

InvalidFileMsg == "Please select a valid image file"
FailedMsg == "Failed to analyze the image. Please try again."

\* the files the user can pick, and the media type the browser reports
Files == {"leaf1.png", "leaf2.jpg", "notes.txt"}

TypeOf ==
  [f \in Files |->
     CASE f = "leaf1.png" -> <<"i","m","a","g","e","/","p","n","g">>
       [] f = "leaf2.jpg" -> <<"i","m","a","g","e","/","j","p","e","g">>
       [] f = "notes.txt" -> <<"t","e","x","t","/","p","l","a","i","n">>]

ImagePrefix == <<"i","m","a","g","e","/">>

\* String.prototype.startsWith
StartsWith(s, p) ==
  /\ Len(s) >= Len(p)
  /\ \A i \in 1..Len(p) : s[i] = p[i]

\* the media type is not looked at
IsImage_NoCheck(f) == TRUE

\* file.type.startsWith('image/')
IsImage(f) == StartsWith(TypeOf[f], ImagePrefix)

(***************************************************************************)
(* The endpoint's answers                                                  *)
(***************************************************************************)
\* a JSON object body; each field is present with a value, or absent
Bodies ==
  [prediction : {Undefined, "", "Corn___Common_rust"},
   data       : {Undefined, "Potato___healthy"},
   confidence : {Undefined, "0.87"},
   image_url  : {Undefined, "/static/out.png"}]

Statuses == {200, 404, 500}

\* every HTTP answer taken for a success
IsSuccess_AnyAnswer(status) == status >= 200

\* axios' default validateStatus
IsSuccess(status) == status >= 200 /\ status < 300

\* JavaScript truthiness of a string-or-undefined value
Truthy(v) == v # Undefined /\ v # ""

\* a || b
Or(a, b) == IF Truthy(a) THEN a ELSE b

(***************************************************************************)
(* Label formatting and the rendering of a result                          *)
(***************************************************************************)
LowerCase == <<"a","b","c","d","e","f","g","h","i","j","k","l","m",
               "n","o","p","q","r","s","t","u","v","w","x","y","z">>
UpperCase == <<"A","B","C","D","E","F","G","H","I","J","K","L","M",
               "N","O","P","Q","R","S","T","U","V","W","X","Y","Z">>
Digits == <<"0","1","2","3","4","5","6","7","8","9">>

Range(s) == {s[i] : i \in 1..Len(s)}

\* String.prototype.toUpperCase on one character
ToUpperCase(c) ==
  IF c \in Range(LowerCase)
    THEN UpperCase[CHOOSE i \in 1..Len(LowerCase) : LowerCase[i] = c]
    ELSE c

\* the regular expression class \w
IsWordChar(c) ==
  c \in Range(LowerCase) \cup Range(UpperCase) \cup Range(Digits) \cup {"_"}

\* .replace(/___/g, ' - '): leftmost, non-overlapping matches
RECURSIVE ReplaceTriple(_)
ReplaceTriple(s) ==
  IF s = <<>> THEN <<>>
  ELSE IF Len(s) >= 3 /\ s[1] = "_" /\ s[2] = "_" /\ s[3] = "_"
    THEN <<" ", "-", " ">> \o ReplaceTriple(SubSeq(s, 4, Len(s)))
    ELSE <<s[1]>> \o ReplaceTriple(Tail(s))

\* .replace(/_/g, ' ')
ReplaceUnderscore(s) ==
  [i \in 1..Len(s) |-> IF s[i] = "_" THEN " " ELSE s[i]]

\* .replace(/\b\w/g, l => l.toUpperCase()): a word character that starts
\* the string or follows a non-word character
Capitalize(s) ==
  [i \in 1..Len(s) |->
     IF IsWordChar(s[i]) /\ (i = 1 \/ ~IsWordChar(s[i - 1]))
       THEN ToUpperCase(s[i])
       ELSE s[i]]

\* the single underscores replaced before the triple ones
formatDiseaseName_SingleFirst(name) ==
  Capitalize(ReplaceTriple(ReplaceUnderscore(name)))

formatDiseaseName(name) == Capitalize(ReplaceUnderscore(ReplaceTriple(name)))

\* String.prototype.toLowerCase on one character
ToLowerCase(c) ==
  IF c \in Range(UpperCase)
    THEN LowerCase[CHOOSE i \in 1..Len(UpperCase) : UpperCase[i] = c]
    ELSE c

\* prediction.toLowerCase()
toLowerCase(s) == [i \in 1..Len(s) |-> ToLowerCase(s[i])]

\* String.prototype.includes
Includes(s, sub) ==
  \E i \in 1..(Len(s) - Len(sub) + 1) : SubSeq(s, i, i + Len(sub) - 1) = sub

Healthy == <<"h","e","a","l","t","h","y">>

\* the fields that follow from the flag
StatusOf(isHealthy) ==
  [isHealthy   |-> isHealthy,
   icon        |-> IF isHealthy THEN "CheckCircle" ELSE "AlertCircle",
   color       |-> IF isHealthy THEN "text-emerald-400" ELSE "text-red-400",
   bgColor     |-> IF isHealthy THEN "bg-emerald-500/20" ELSE "bg-red-500/20",
   borderColor |-> IF isHealthy THEN "border-emerald-500/30"
                                ELSE "border-red-500/30"]

\* the label is searched as it is, without lower-casing
getHealthStatus_CaseSensitive(prediction) ==
  StatusOf(Includes(prediction, Healthy))

getHealthStatus(prediction) ==
  StatusOf(Includes(toLowerCase(prediction), Healthy))

\* the characters of the label strings the endpoint answers with
Chars(label) ==
  CASE label = "" -> <<>>
    [] label = "Corn___Common_rust" ->
         <<"C","o","r","n","_","_","_","C","o","m","m","o","n","_",
           "r","u","s","t">>
    [] label = "Potato___healthy" ->
         <<"P","o","t","a","t","o","_","_","_","h","e","a","l","t","h","y">>

\* {result && ...}: getHealthStatus(result.prediction) and
\* formatDiseaseName(result.prediction) throw on an undefined label, and an
\* error thrown while rendering unmounts the whole tree
RenderThrows ==
  /\ currentPage = "predict"
  /\ result # NoResult
  /\ result.prediction = Undefined

Mounted == ~RenderThrows

\* the text PredictPage shows for the result
NothingShown == <<"<none>">>

DisplayedLabel ==
  IF currentPage = "predict" /\ result # NoResult
       /\ result.prediction # Undefined
    THEN formatDiseaseName(Chars(result.prediction))
    ELSE NothingShown

\* nothing returned yet
NotFormatted == <<"<none>">>
NotClassified == [none |-> TRUE]

\* status 0: the request failed without any HTTP response
NetworkError == 0

\* what the last event found: kept for stating what an event did
Pre == [hadResult |-> result # NoResult, hadError |-> error # "",
        wasLoading |-> isLoading, error |-> error,
        wasDragOver |-> isDragOver]

NoEvent == [op |-> "init"]

(***************************************************************************)
(* The other two variants: their useState initialisers                     *)
(***************************************************************************)
\* src/unnamed/part_000: the same three pages around the controller
part000_Init ==
  [currentPage |-> "home", selectedFile |-> NoFile, previewUrl |-> NoUrl,
   isLoading |-> FALSE, result |-> NoResult, error |-> "",
   inflight |-> <<>>, urlCount |-> 0]

\* src/unnamed/part_001: the upload page alone, no navigation
part001_Init ==
  [selectedFile |-> NoFile, previewUrl |-> NoUrl,
   isLoading |-> FALSE, result |-> NoResult, error |-> "",
   inflight |-> <<>>, urlCount |-> 0]

(***************************************************************************)
(* Initial state: the useState initialisers                                *)
(***************************************************************************)
Init ==
  /\ currentPage = "home"
  /\ selectedFile = NoFile
  /\ previewUrl = NoUrl
  /\ isLoading = FALSE
  /\ result = NoResult
  /\ error = ""
  /\ isDragOver = FALSE
  /\ inflight = <<>>
  /\ urlCount = 0
  /\ lastEvent = NoEvent
  /\ rawLabel = <<>>
  /\ shownName = NotFormatted
  /\ health = NotClassified
  /\ part000 = part000_Init
  /\ part001 = part001_Init

(***************************************************************************)
(* handleFileSelect                                                        *)
(***************************************************************************)
\* URL.createObjectURL(file): a fresh handle on every call
CreateObjectURL(f) == [id |-> urlCount + 1, file |-> f]

\* the object URLs created and not revoked: the code has no
\* URL.revokeObjectURL call, neither on a new selection nor on unmount
LiveObjectUrls == 1..urlCount

\* a valid selection that keeps the previous result
handleFileSelect_KeepsResult(f) ==
  IF IsImage(f)
    THEN /\ urlCount < MaxUrls
         /\ selectedFile' = f
         /\ previewUrl' = CreateObjectURL(f)
         /\ urlCount' = urlCount + 1
         /\ error' = ""
         /\ UNCHANGED result
    ELSE /\ error' = InvalidFileMsg
         /\ UNCHANGED <<selectedFile, previewUrl, urlCount, result>>

\* a valid selection that keeps the previous error
handleFileSelect_KeepsError(f) ==
  IF IsImage(f)
    THEN /\ urlCount < MaxUrls
         /\ selectedFile' = f
         /\ previewUrl' = CreateObjectURL(f)
         /\ urlCount' = urlCount + 1
         /\ result' = NoResult
         /\ UNCHANGED error
    ELSE /\ error' = InvalidFileMsg
         /\ UNCHANGED <<selectedFile, previewUrl, urlCount, result>>

\* an invalid selection also drops the file selected before
handleFileSelect_InvalidClears(f) ==
  IF IsImage(f)
    THEN /\ urlCount < MaxUrls
         /\ selectedFile' = f
         /\ previewUrl' = CreateObjectURL(f)
         /\ urlCount' = urlCount + 1
         /\ result' = NoResult
         /\ error' = ""
    ELSE /\ error' = InvalidFileMsg
         /\ selectedFile' = NoFile
         /\ previewUrl' = NoUrl
         /\ UNCHANGED <<urlCount, result>>

handleFileSelect(f) ==
  IF IsImage(f)
    THEN /\ urlCount < MaxUrls
         /\ selectedFile' = f
         /\ previewUrl' = CreateObjectURL(f)
         /\ urlCount' = urlCount + 1
         /\ result' = NoResult
         /\ error' = ""
    ELSE /\ error' = InvalidFileMsg
         /\ UNCHANGED <<selectedFile, previewUrl, urlCount, result>>

\* a selection made while a request is in flight sends the new file too
handleFileChange_Resends(files) ==
  /\ Mounted
  /\ currentPage = "predict"
  /\ IF Len(files) > 0
       THEN handleFileSelect(files[1])
       ELSE UNCHANGED <<selectedFile, previewUrl, urlCount, result, error>>
  /\ inflight' = IF isLoading /\ Len(files) > 0 /\ IsImage(files[1])
                   THEN <<[method |-> "POST", url |-> "/predict",
                           img |-> files[1]]>>
                   ELSE inflight
  /\ lastEvent' = [op |-> "change", files |-> files, pre |-> Pre]
  /\ UNCHANGED <<currentPage, isLoading, isDragOver>>
  /\ UNCHANGED <<labelVars, variants>>

\* the file input's onChange: e.target.files?.[0]
handleFileChange(files) ==
  /\ Mounted
  /\ currentPage = "predict"
  /\ IF Len(files) > 0
       THEN handleFileSelect(files[1])
       ELSE UNCHANGED <<selectedFile, previewUrl, urlCount, result, error>>
  /\ lastEvent' = [op |-> "change", files |-> files, pre |-> Pre]
  /\ UNCHANGED <<currentPage, isLoading, isDragOver, inflight>>
  /\ UNCHANGED <<labelVars, variants>>

\* the last of the dropped files is taken
handleDrop_LastFile(files) ==
  /\ Mounted
  /\ currentPage = "predict"
  /\ isDragOver' = FALSE
  /\ IF Len(files) > 0
       THEN handleFileSelect(files[Len(files)])
       ELSE UNCHANGED <<selectedFile, previewUrl, urlCount, result, error>>
  /\ lastEvent' = [op |-> "drop", files |-> files, pre |-> Pre]
  /\ UNCHANGED <<currentPage, isLoading, inflight>>
  /\ UNCHANGED <<labelVars, variants>>

\* the drop zone's onDrop: e.dataTransfer.files[0]
handleDrop(files) ==
  /\ Mounted
  /\ currentPage = "predict"
  /\ isDragOver' = FALSE
  /\ IF Len(files) > 0
       THEN handleFileSelect(files[1])
       ELSE UNCHANGED <<selectedFile, previewUrl, urlCount, result, error>>
  /\ lastEvent' = [op |-> "drop", files |-> files, pre |-> Pre]
  /\ UNCHANGED <<currentPage, isLoading, inflight>>
  /\ UNCHANGED <<labelVars, variants>>

\* onDragOver / onDragLeave of the drop zone
DragOver ==
  /\ Mounted
  /\ currentPage = "predict"
  /\ isDragOver' = TRUE
  /\ lastEvent' = [op |-> "dragover", pre |-> Pre]
  /\ UNCHANGED <<currentPage, ctrl, inflight, urlCount>>
  /\ UNCHANGED <<labelVars, variants>>

DragLeave ==
  /\ Mounted
  /\ currentPage = "predict"
  /\ isDragOver' = FALSE
  /\ lastEvent' = [op |-> "dragleave", pre |-> Pre]
  /\ UNCHANGED <<currentPage, ctrl, inflight, urlCount>>
  /\ UNCHANGED <<labelVars, variants>>

(***************************************************************************)
(* Navigation                                                              *)
(***************************************************************************)
\* leaving the page abandons the request and the loading state
Navigate_AbandonsRequest(p) ==
  /\ Mounted
  /\ currentPage' = p
  /\ isLoading' = FALSE
  /\ inflight' = <<>>
  /\ lastEvent' = [op |-> "navigate", page |-> p, pre |-> Pre]
  /\ UNCHANGED <<selectedFile, previewUrl, result, error, isDragOver,
                 urlCount>>
  /\ UNCHANGED <<labelVars, variants>>

\* the upload is forgotten when the page is left
Navigate_ResetsUpload(p) ==
  /\ Mounted
  /\ currentPage' = p
  /\ selectedFile' = IF p = currentPage THEN selectedFile ELSE NoFile
  /\ previewUrl' = IF p = currentPage THEN previewUrl ELSE NoUrl
  /\ result' = IF p = currentPage THEN result ELSE NoResult
  /\ error' = IF p = currentPage THEN error ELSE ""
  /\ lastEvent' = [op |-> "navigate", page |-> p, pre |-> Pre]
  /\ UNCHANGED <<isLoading, isDragOver, inflight, urlCount>>
  /\ UNCHANGED <<labelVars, variants>>

Navigate(p) ==
  /\ Mounted
  /\ currentPage' = p
  /\ lastEvent' = [op |-> "navigate", page |-> p, pre |-> Pre]
  /\ UNCHANGED <<ctrl, isDragOver, inflight, urlCount>>
  /\ UNCHANGED <<labelVars, variants>>

(***************************************************************************)
(* handleSubmit, up to the await                                           *)
(***************************************************************************)
\* {selectedFile && (<button ...>)} inside PredictPage
SubmitRendered == currentPage = "predict" /\ selectedFile # NoFile

\* a button that is never disabled
SubmitEnabled_Always == TRUE

\* disabled={isLoading}
SubmitEnabled == ~isLoading

\* one request of the controller
Request(f) == [method |-> "POST", url |-> "/predict", img |-> f]

\* the request is sent twice
PostPredict_Twice == Append(Append(inflight, Request(selectedFile)),
                            Request(selectedFile))

\* formData.append('img', selectedFile); axios.post('/predict', formData)
PostPredict == Append(inflight, Request(selectedFile))

\* no early return when nothing is selected
handleSubmit_NoGuard ==
  /\ isLoading' = TRUE
  /\ error' = ""
  /\ inflight' = PostPredict

\* the previous error is not cleared
handleSubmit_KeepsError ==
  IF selectedFile = NoFile
    THEN UNCHANGED <<isLoading, error, inflight>>
    ELSE /\ isLoading' = TRUE
         /\ inflight' = PostPredict
         /\ UNCHANGED error

handleSubmit ==
  IF selectedFile = NoFile
    THEN UNCHANGED <<isLoading, error, inflight>>
    ELSE /\ isLoading' = TRUE
         /\ error' = ""
         /\ inflight' = PostPredict

\* submit(): a click on the rendered, enabled button, or a call of the
\* handler while no file is selected (the case its first line guards)
Submit ==
  /\ Mounted
  /\ \/ SubmitRendered /\ SubmitEnabled
     \/ selectedFile = NoFile
  /\ handleSubmit
  /\ lastEvent' = [op |-> "submit", file |-> selectedFile, pre |-> Pre]
  /\ UNCHANGED <<currentPage, selectedFile, previewUrl, result, isDragOver,
                 urlCount>>
  /\ UNCHANGED <<labelVars, variants>>

(***************************************************************************)
(* handleSubmit, after the await                                           *)
(***************************************************************************)
Remove(s, i) == SubSeq(s, 1, i - 1) \o SubSeq(s, i + 1, Len(s))

\* the legacy field preferred over prediction
MakeResult_DataFirst(body) ==
  [prediction |-> Or(body.data, body.prediction),
   image_url  |-> body.image_url]

\* setResult({prediction: data.prediction || data.data, image_url: ...})
MakeResult(body) ==
  [prediction |-> Or(body.prediction, body.data),
   image_url  |-> body.image_url]

\* isLoading is reset on the failure path only
ResponseOk_KeepsLoading(i, status, body) ==
  /\ i \in 1..Len(inflight)
  /\ IsSuccess(status)
  /\ result' = MakeResult(body)
  /\ inflight' = Remove(inflight, i)
  /\ lastEvent' = [op |-> "response", status |-> status, body |-> body,
                   img |-> inflight[i].img, pre |-> Pre]
  /\ UNCHANGED <<currentPage, selectedFile, previewUrl, error, isDragOver,
                 urlCount, isLoading>>
  /\ UNCHANGED <<labelVars, variants>>

\* the answer to a request for a superseded file is dropped
ResponseOk_DiscardsStale(i, status, body) ==
  /\ i \in 1..Len(inflight)
  /\ IsSuccess(status)
  /\ result' = IF inflight[i].img = selectedFile
                 THEN MakeResult(body)
                 ELSE result
  /\ isLoading' = FALSE
  /\ inflight' = Remove(inflight, i)
  /\ lastEvent' = [op |-> "response", status |-> status, body |-> body,
                   img |-> inflight[i].img, pre |-> Pre]
  /\ UNCHANGED <<currentPage, selectedFile, previewUrl, error, isDragOver,
                 urlCount>>
  /\ UNCHANGED <<labelVars, variants>>

\* the error is cleared when the result arrives
ResponseOk_ClearsError(i, status, body) ==
  /\ i \in 1..Len(inflight)
  /\ IsSuccess(status)
  /\ result' = MakeResult(body)
  /\ error' = ""
  /\ isLoading' = FALSE
  /\ inflight' = Remove(inflight, i)
  /\ lastEvent' = [op |-> "response", status |-> status, body |-> body,
                   img |-> inflight[i].img, pre |-> Pre]
  /\ UNCHANGED <<currentPage, selectedFile, previewUrl, isDragOver,
                 urlCount>>
  /\ UNCHANGED <<labelVars, variants>>

\* the promise resolves: try branch, then finally
ResponseOk(i, status, body) ==
  /\ i \in 1..Len(inflight)
  /\ IsSuccess(status)
  /\ result' = MakeResult(body)
  /\ isLoading' = FALSE
  /\ inflight' = Remove(inflight, i)
  /\ lastEvent' = [op |-> "response", status |-> status, body |-> body,
                   img |-> inflight[i].img, pre |-> Pre]
  /\ UNCHANGED <<currentPage, selectedFile, previewUrl, error, isDragOver,
                 urlCount>>
  /\ UNCHANGED <<labelVars, variants>>

\* the message of the caught error, as axios words it
ErrorDetail(status) ==
  IF status = NetworkError
    THEN "Network Error"
    ELSE "Request failed with status code"

\* isLoading is not reset on the failure path
ResponseError_NoFinally(i, status) ==
  /\ i \in 1..Len(inflight)
  /\ ~IsSuccess(status)
  /\ error' = FailedMsg
  /\ inflight' = Remove(inflight, i)
  /\ lastEvent' = [op |-> "response", status |-> status,
                   img |-> inflight[i].img, pre |-> Pre]
  /\ UNCHANGED <<currentPage, selectedFile, previewUrl, result, isDragOver,
                 urlCount, isLoading>>
  /\ UNCHANGED <<labelVars, variants>>

\* the caught error's own message is shown
ResponseError_ShowsDetail(i, status) ==
  /\ i \in 1..Len(inflight)
  /\ ~IsSuccess(status)
  /\ error' = ErrorDetail(status)
  /\ isLoading' = FALSE
  /\ inflight' = Remove(inflight, i)
  /\ lastEvent' = [op |-> "response", status |-> status,
                   img |-> inflight[i].img, pre |-> Pre]
  /\ UNCHANGED <<currentPage, selectedFile, previewUrl, result, isDragOver,
                 urlCount>>
  /\ UNCHANGED <<labelVars, variants>>

\* the result of an earlier submission is dropped when a request fails
ResponseError_ClearsResult(i, status) ==
  /\ i \in 1..Len(inflight)
  /\ ~IsSuccess(status)
  /\ error' = FailedMsg
  /\ result' = NoResult
  /\ isLoading' = FALSE
  /\ inflight' = Remove(inflight, i)
  /\ lastEvent' = [op |-> "response", status |-> status,
                   img |-> inflight[i].img, pre |-> Pre]
  /\ UNCHANGED <<currentPage, selectedFile, previewUrl, isDragOver,
                 urlCount>>
  /\ UNCHANGED <<labelVars, variants>>

\* the promise rejects (a transport failure or a status axios refuses):
\* catch branch, then finally
ResponseError(i, status) ==
  /\ i \in 1..Len(inflight)
  /\ ~IsSuccess(status)
  /\ error' = FailedMsg
  /\ isLoading' = FALSE
  /\ inflight' = Remove(inflight, i)
  /\ lastEvent' = [op |-> "response", status |-> status,
                   img |-> inflight[i].img, pre |-> Pre]
  /\ UNCHANGED <<currentPage, selectedFile, previewUrl, result, isDragOver,
                 urlCount>>
  /\ UNCHANGED <<labelVars, variants>>

(***************************************************************************)
(* Specification                                                           *)
(***************************************************************************)
\* the FileList of a drop or of the file input
FileLists == UNION {[1..n -> Files] : n \in 0..MaxDrop}

Next ==
  \/ \E fs \in FileLists : handleFileChange(fs)
  \/ \E fs \in FileLists : handleDrop(fs)
  \/ DragOver
  \/ DragLeave
  \/ \E p \in Pages : Navigate(p)
  \/ Submit
  \/ \E i \in 1..Len(inflight), st \in Statuses, b \in Bodies :
       ResponseOk(i, st, b)
  \/ \E i \in 1..Len(inflight), st \in Statuses \cup {NetworkError} :
       ResponseError(i, st)

Spec == Init /\ [][Next]_vars

\* the awaited axios.post settles: the promise resolves or rejects
Settle ==
  \/ \E i \in 1..Len(inflight), st \in Statuses, b \in Bodies :
       ResponseOk(i, st, b)
  \/ \E i \in 1..Len(inflight), st \in Statuses \cup {NetworkError} :
       ResponseError(i, st)

\* every request in flight is eventually answered or fails
FairSpec == Spec /\ WF_vars(Settle)

(***************************************************************************)
(* The three variants side by side                                         *)
(***************************************************************************)
\* src/unnamed/part_000, handleFileSelect
part000_handleFileSelect(c, f) ==
  IF StartsWith(TypeOf[f], ImagePrefix)
    THEN [c EXCEPT !.selectedFile = f,
                   !.previewUrl = [id |-> c.urlCount + 1, file |-> f],
                   !.urlCount = c.urlCount + 1,
                   !.result = NoResult,
                   !.error = ""]
    ELSE [c EXCEPT !.error = "Please select a valid image file"]

\* src/unnamed/part_000, handleSubmit up to the await
part000_handleSubmit(c) ==
  IF c.selectedFile = NoFile
    THEN c
    ELSE [c EXCEPT !.isLoading = TRUE,
                   !.error = "",
                   !.inflight = Append(c.inflight,
                                       [method |-> "POST", url |-> "/predict",
                                        img |-> c.selectedFile])]

\* src/unnamed/part_000, handleSubmit after the await: try, then finally
part000_ResponseOk(c, i, body) ==
  [c EXCEPT !.result = [prediction |-> IF Truthy(body.prediction)
                                         THEN body.prediction
                                         ELSE body.data,
                        image_url |-> body.image_url],
            !.isLoading = FALSE,
            !.inflight = Remove(c.inflight, i)]

\* src/unnamed/part_000, handleSubmit after the await: catch, then finally
part000_ResponseError(c, i) ==
  [c EXCEPT !.error = "Failed to analyze the image. Please try again.",
            !.isLoading = FALSE,
            !.inflight = Remove(c.inflight, i)]

\* src/unnamed/part_000: the rendering of the result throws
part000_RenderThrows(c) ==
  /\ c.currentPage = "predict"
  /\ c.result # NoResult
  /\ c.result.prediction = Undefined

\* src/unnamed/part_000: the upload page is on screen
part000_UploadShown(c) == c.currentPage = "predict" /\ ~part000_RenderThrows(c)

\* src/unnamed/part_000: {selectedFile && <button disabled={isLoading}>}
part000_SubmitOffered(c) == c.selectedFile # NoFile /\ ~c.isLoading

\* src/unnamed/part_001, handleFileSelect
part001_handleFileSelect(c, f) ==
  IF StartsWith(TypeOf[f], ImagePrefix)
    THEN [c EXCEPT !.selectedFile = f,
                   !.previewUrl = [id |-> c.urlCount + 1, file |-> f],
                   !.urlCount = c.urlCount + 1,
                   !.result = NoResult,
                   !.error = ""]
    ELSE [c EXCEPT !.error = "Please select a valid image file"]

\* src/unnamed/part_001, handleSubmit up to the await
part001_handleSubmit(c) ==
  IF c.selectedFile = NoFile
    THEN c
    ELSE [c EXCEPT !.isLoading = TRUE,
                   !.error = "",
                   !.inflight = Append(c.inflight,
                                       [method |-> "POST", url |-> "/predict",
                                        img |-> c.selectedFile])]

\* src/unnamed/part_001, handleSubmit after the await: try, then finally
part001_ResponseOk(c, i, body) ==
  [c EXCEPT !.result = [prediction |-> IF Truthy(body.prediction)
                                         THEN body.prediction
                                         ELSE body.data,
                        image_url |-> body.image_url],
            !.isLoading = FALSE,
            !.inflight = Remove(c.inflight, i)]

\* src/unnamed/part_001, handleSubmit after the await: catch, then finally
part001_ResponseError(c, i) ==
  [c EXCEPT !.error = "Failed to analyze the image. Please try again.",
            !.isLoading = FALSE,
            !.inflight = Remove(c.inflight, i)]

\* src/unnamed/part_001: the upload page is the whole application; it is on
\* screen until the rendering of the result throws
part001_UploadShown(c) ==
  ~(c.result # NoResult /\ c.result.prediction = Undefined)

\* src/unnamed/part_001: {selectedFile && <button disabled={isLoading}>}
part001_SubmitOffered(c) == c.selectedFile # NoFile /\ ~c.isLoading

\* selectFile on all three: the file input of each upload page changes
AllSelectFile(files) ==
  /\ Mounted
  /\ currentPage = "predict"
  /\ part000_UploadShown(part000)
  /\ part001_UploadShown(part001)
  /\ IF Len(files) > 0
       THEN /\ handleFileSelect(files[1])
            /\ part000' = part000_handleFileSelect(part000, files[1])
            /\ part001' = part001_handleFileSelect(part001, files[1])
       ELSE UNCHANGED <<selectedFile, previewUrl, urlCount, result, error,
                        variants>>
  /\ lastEvent' = [op |-> "change", files |-> files, pre |-> Pre]
  /\ UNCHANGED <<currentPage, isLoading, isDragOver, inflight, labelVars>>

\* submit on all three: the button of each, or the handler while no file is
\* selected
AllSubmit ==
  /\ Mounted
  /\ \/ /\ SubmitRendered /\ SubmitEnabled
        /\ part000_UploadShown(part000) /\ part000_SubmitOffered(part000)
        /\ part001_UploadShown(part001) /\ part001_SubmitOffered(part001)
     \/ /\ selectedFile = NoFile
        /\ part000.selectedFile = NoFile
        /\ part001.selectedFile = NoFile
  /\ handleSubmit
  /\ part000' = part000_handleSubmit(part000)
  /\ part001' = part001_handleSubmit(part001)
  /\ lastEvent' = [op |-> "submit", file |-> selectedFile, pre |-> Pre]
  /\ UNCHANGED <<currentPage, selectedFile, previewUrl, result, isDragOver,
                 urlCount, labelVars>>

\* responseOk on all three: the request of each resolves with the same answer
AllResponseOk(i, status, body) ==
  /\ i \in 1..Len(inflight)
  /\ i \in 1..Len(part000.inflight)
  /\ i \in 1..Len(part001.inflight)
  /\ IsSuccess(status)
  /\ result' = MakeResult(body)
  /\ isLoading' = FALSE
  /\ inflight' = Remove(inflight, i)
  /\ part000' = part000_ResponseOk(part000, i, body)
  /\ part001' = part001_ResponseOk(part001, i, body)
  /\ lastEvent' = [op |-> "response", status |-> status, body |-> body,
                   img |-> inflight[i].img, pre |-> Pre]
  /\ UNCHANGED <<currentPage, selectedFile, previewUrl, error, isDragOver,
                 urlCount, labelVars>>

\* responseError on all three: the request of each rejects
AllResponseError(i, status) ==
  /\ i \in 1..Len(inflight)
  /\ i \in 1..Len(part000.inflight)
  /\ i \in 1..Len(part001.inflight)
  /\ ~IsSuccess(status)
  /\ error' = FailedMsg
  /\ isLoading' = FALSE
  /\ inflight' = Remove(inflight, i)
  /\ part000' = part000_ResponseError(part000, i)
  /\ part001' = part001_ResponseError(part001, i)
  /\ lastEvent' = [op |-> "response", status |-> status,
                   img |-> inflight[i].img, pre |-> Pre]
  /\ UNCHANGED <<currentPage, selectedFile, previewUrl, result, isDragOver,
                 urlCount, labelVars>>

\* the navigation bar of the two variants that have pages
AllNavigate(p) ==
  /\ Mounted
  /\ ~part000_RenderThrows(part000)
  /\ currentPage' = p
  /\ part000' = [part000 EXCEPT !.currentPage = p]
  /\ lastEvent' = [op |-> "navigate", page |-> p, pre |-> Pre]
  /\ UNCHANGED <<ctrl, isDragOver, inflight, urlCount, labelVars, part001>>

VariantsNext ==
  \/ \E fs \in FileLists : AllSelectFile(fs)
  \/ AllSubmit
  \/ \E i \in 1..Len(inflight), st \in Statuses, b \in Bodies :
       AllResponseOk(i, st, b)
  \/ \E i \in 1..Len(inflight), st \in Statuses \cup {NetworkError} :
       AllResponseError(i, st)
  \/ \E p \in Pages : AllNavigate(p)

VariantsSpec == Init /\ [][VariantsNext]_vars

(***************************************************************************)
(* formatDiseaseName and getHealthStatus applied to a label on their own   *)
(***************************************************************************)
LabelAlphabet == {"a", "B", "_", " ", "(", "-", ","}

\* every label of at most MaxLabelLen characters over LabelAlphabet
ShortLabels == UNION {[1..n -> LabelAlphabet] : n \in 0..MaxLabelLen}

Fragments ==
  {<<"h","e","a","l">>, <<"t","h","y">>, <<"H","E","A","L">>,
   <<"T","h","y">>, <<"h","e">>, <<"a","l","t","h","y">>, <<"_">>, <<"x">>}

RECURSIVE Flatten(_)
Flatten(ss) == IF ss = <<>> THEN <<>> ELSE Head(ss) \o Flatten(Tail(ss))

\* every label made of at most MaxFragments fragments
JoinedLabels ==
  {Flatten(ss) : ss \in UNION {[1..n -> Fragments] : n \in 0..MaxFragments}}

TomatoLateBlightRaw == <<"T","o","m","a","t","o","_","_","_","L","a","t","e","_","b","l","i","g","h","t">>
AppleHealthyRaw == <<"A","p","p","l","e","_","_","_","h","e","a","l","t","h","y">>
BackgroundRaw == <<"B","a","c","k","g","r","o","u","n","d","_","w","i","t","h","o","u","t","_","l","e","a","v","e","s">>
CornMaizeRaw == <<"C","o","r","n","_","(","m","a","i","z","e",")","_","_","_","C","o","m","m","o","n","_","r","u","s","t","_">>
PepperBellRaw == <<"P","e","p","p","e","r",",","_","b","e","l","l","_","_","_","B","a","c","t","e","r","i","a","l","_","s","p","o","t">>

LabelInputs ==
  ShortLabels \cup JoinedLabels
    \cup {TomatoLateBlightRaw, AppleHealthyRaw, BackgroundRaw, CornMaizeRaw,
          PepperBellRaw}

LabelInit ==
  /\ currentPage = "predict"
  /\ selectedFile = NoFile
  /\ previewUrl = NoUrl
  /\ isLoading = FALSE
  /\ result = NoResult
  /\ error = ""
  /\ isDragOver = FALSE
  /\ inflight = <<>>
  /\ urlCount = 0
  /\ lastEvent = NoEvent
  /\ rawLabel \in LabelInputs
  /\ shownName = NotFormatted
  /\ health = NotClassified
  /\ part000 = part000_Init
  /\ part001 = part001_Init

\* formatDiseaseName(result.prediction)
FormatLabel ==
  /\ shownName = NotFormatted
  /\ shownName' = formatDiseaseName(rawLabel)
  /\ UNCHANGED <<currentPage, ctrl, isDragOver, inflight, urlCount,
                 lastEvent, rawLabel, health, variants>>

\* getHealthStatus(result.prediction)
ClassifyLabel ==
  /\ health = NotClassified
  /\ health' = getHealthStatus(rawLabel)
  /\ UNCHANGED <<currentPage, ctrl, isDragOver, inflight, urlCount,
                 lastEvent, rawLabel, shownName, variants>>

LabelNext == FormatLabel \/ ClassifyLabel

LabelSpec == LabelInit /\ [][LabelNext]_vars

(***************************************************************************)
(* Properties of the controller                                            *)
(***************************************************************************)
\* files whose media type starts with image/
ImageFiles == {"leaf1.png", "leaf2.jpg"}

\* the event was a file selection (input change or drop) carrying a file
Selected(e) == e.op \in {"change", "drop"} /\ Len(e.files) > 0
ValidSelection(e) == Selected(e) /\ e.files[1] \in ImageFiles
InvalidSelection(e) == Selected(e) /\ e.files[1] \notin ImageFiles

\* the event was a submit with a file selected
Submission(e) == e.op = "submit" /\ e.file # NoFile

\* the event was the answer to a request
Answer2xx(e) == e.op = "response" /\ e.status \in 200..299
AnswerFailure(e) == e.op = "response" /\ e.status \notin 200..299

CornCommonRust ==
  <<"C","o","r","n"," ","-"," ","C","o","m","m","o","n"," ","R","u","s","t">>
PotatoHealthy ==
  <<"P","o","t","a","t","o"," ","-"," ","H","e","a","l","t","h","y">>

\* C1 (as stated): result and error are never populated at the same time.
C1_AtMostOnePopulated == ~(result # NoResult /\ error # "")

\* C1 (amended): a valid file selection leaves both result and error empty,
\* and no single event populates both: a step into a state where both are
\* populated leaves one of the two as it was.
C1_NoEventPopulatesBoth ==
  [][/\ ValidSelection(lastEvent') => (result' = NoResult /\ error' = "")
     /\ ((result' # NoResult /\ error' # "")
            /\ ~(result # NoResult /\ error # ""))
          => (result' = result \/ error' = error)]_vars

C1_Witness ==
  /\ InvalidSelection(lastEvent)
  /\ lastEvent.pre.hadResult
  /\ ~lastEvent.pre.hadError
  /\ result # NoResult
  /\ error = InvalidFileMsg

\* C2: a request is only issued from a state with a file selected and
\* isLoading false, and at most one request is outstanding at any time.
C2_SubmitOnlyWhenReadyAndIdle ==
  [][/\ Len(inflight') > Len(inflight)
          => (selectedFile # NoFile /\ ~isLoading /\ Len(inflight) = 0)
     /\ Len(inflight') <= 1]_vars

C2_Witness ==
  /\ Submission(lastEvent)
  /\ Len(inflight) = 1
  /\ isLoading

\* C3: selecting a file whose media type starts with image/ leaves that
\* file selected, a preview of that file, no result and no error, whatever
\* was shown before.
C3_ValidSelectionResets ==
  ValidSelection(lastEvent) =>
    /\ selectedFile = lastEvent.files[1]
    /\ previewUrl # NoUrl
    /\ previewUrl.file = lastEvent.files[1]
    /\ result = NoResult
    /\ error = ""

C3_Witness ==
  /\ ValidSelection(lastEvent)
  /\ lastEvent.pre.hadResult
  /\ lastEvent.pre.hadError
  /\ selectedFile = lastEvent.files[1]
  /\ result = NoResult
  /\ error = ""

\* C4: selecting a file whose media type does not start with image/ sets
\* error to 'Please select a valid image file' and leaves the result, the
\* selected file, the preview and the loading flag unchanged.
C4_InvalidSelectionOnlySetsError ==
  [][InvalidSelection(lastEvent') =>
       /\ error' = InvalidFileMsg
       /\ UNCHANGED <<result, selectedFile, previewUrl, isLoading,
                      inflight>>]_vars

C4_Witness ==
  /\ InvalidSelection(lastEvent)
  /\ error = InvalidFileMsg
  /\ result # NoResult
  /\ selectedFile \in ImageFiles
  /\ previewUrl.file = selectedFile

\* C5: submit with no file selected changes no state variable and issues
\* no request.
C5_SubmitWithoutFileIsNoOp ==
  [][(lastEvent'.op = "submit" /\ selectedFile = NoFile) =>
       UNCHANGED <<selectedFile, previewUrl, isLoading, result, error,
                   inflight>>]_vars

C5_Witness ==
  /\ lastEvent.op = "submit"
  /\ lastEvent.file = NoFile
  /\ selectedFile = NoFile
  /\ ~isLoading
  /\ inflight = <<>>

\* C6: in the state reached by a submit with a file selected, result is
\* null.
C6_SubmitClearsResult == Submission(lastEvent) => result = NoResult

\* C7: a submit with a file selected sets isLoading, clears the error and
\* issues the request.
C7_SubmitSetsLoadingClearsError ==
  [][(lastEvent'.op = "submit" /\ selectedFile # NoFile) =>
       /\ isLoading'
       /\ error' = ""
       /\ Len(inflight') = Len(inflight) + 1]_vars

C7_Witness ==
  /\ Submission(lastEvent)
  /\ lastEvent.pre.hadError
  /\ isLoading
  /\ error = ""
  /\ Len(inflight) = 1

\* the label shown after the answers of the two examples
ExamplesDisplayed(body) ==
  /\ (currentPage = "predict" /\ body.prediction = "Corn___Common_rust")
       => DisplayedLabel = CornCommonRust
  /\ (currentPage = "predict" /\ body.prediction = Undefined
        /\ body.data = "Potato___healthy")
       => DisplayedLabel = PotatoHealthy

\* C8 (as stated): after a 2xx answer isLoading is false and result is
\* populated, its label is the prediction field whenever that field is
\* present and the data field only when prediction is absent, and the two
\* examples display 'Corn - Common Rust' and 'Potato - Healthy'.
C8_LabelFromPredictionIfPresent ==
  Answer2xx(lastEvent) =>
    /\ ~isLoading
    /\ result # NoResult
    /\ result.prediction =
         (IF lastEvent.body.prediction # Undefined
            THEN lastEvent.body.prediction
            ELSE lastEvent.body.data)
    /\ ExamplesDisplayed(lastEvent.body)

\* C8 (amended): after a 2xx answer with a JSON object body isLoading is
\* false and result is populated, its label is the prediction field
\* whenever that field is present and not empty, and the data field when
\* prediction is absent or the empty string; the two examples display
\* 'Corn - Common Rust' and 'Potato - Healthy'.
C8_LabelFromPredictionIfNonEmpty ==
  Answer2xx(lastEvent) =>
    /\ ~isLoading
    /\ result # NoResult
    /\ result.prediction =
         (IF lastEvent.body.prediction \notin {Undefined, ""}
            THEN lastEvent.body.prediction
            ELSE lastEvent.body.data)
    /\ ExamplesDisplayed(lastEvent.body)

C8_Witness ==
  /\ Answer2xx(lastEvent)
  /\ lastEvent.pre.wasLoading
  /\ lastEvent.body.prediction = ""
  /\ lastEvent.body.data = "Potato___healthy"
  /\ result.prediction = "Potato___healthy"
  /\ currentPage = "predict"
  /\ DisplayedLabel = PotatoHealthy

\* C9: after a 2xx answer the stored result carries the confidence and the
\* image_url of the answer whenever the answer has them.
C9_OptionalFieldsCopied ==
  Answer2xx(lastEvent) =>
    /\ lastEvent.body.confidence # Undefined
         => /\ "confidence" \in DOMAIN result
            /\ result.confidence = lastEvent.body.confidence
    /\ lastEvent.body.image_url # Undefined
         => /\ "image_url" \in DOMAIN result
            /\ result.image_url = lastEvent.body.image_url

\* C10: after a transport failure or a non-2xx answer isLoading is false
\* and error is 'Failed to analyze the image. Please try again.'.
C10_FailureSetsFixedMessage ==
  AnswerFailure(lastEvent) => (~isLoading /\ error = FailedMsg)

C10_Witness ==
  /\ AnswerFailure(lastEvent)
  /\ lastEvent.status = 404
  /\ lastEvent.pre.wasLoading
  /\ ~isLoading
  /\ error = FailedMsg

\* C11: error is always '', 'Please select a valid image file' or 'Failed
\* to analyze the image. Please try again.'; nothing of a failed request
\* (its error text, its status) is ever stored in error.
C11_ErrorIsOneOfThree == error \in {"", InvalidFileMsg, FailedMsg}

C11_Witness ==
  /\ AnswerFailure(lastEvent)
  /\ lastEvent.status = 500
  /\ lastEvent.pre.hadError
  /\ error = FailedMsg

\* C12: a submit with a file selected issues exactly one POST /predict
\* carrying the selected file in field img; the answer to a request takes
\* it out of flight, and no other step issues or drops a request (so the
\* requests ever issued are as many as the effective submits).
C12_OneRequestPerSubmit ==
  [][CASE lastEvent'.op = "submit" /\ selectedFile # NoFile ->
            inflight' = Append(inflight, [method |-> "POST",
                                          url |-> "/predict",
                                          img |-> selectedFile])
       [] lastEvent'.op = "response" ->
            Len(inflight') = Len(inflight) - 1
       [] OTHER -> inflight' = inflight]_vars

C12_Witness ==
  /\ AnswerFailure(lastEvent)
  /\ lastEvent.img = selectedFile
  /\ lastEvent.pre.wasLoading
  /\ inflight = <<>>

\* C13: a failed request leaves the selected file in place and isLoading
\* false, so the submit button (when the predict page is shown) can be
\* clicked again at once, and a submit made while the failure message is
\* shown starts a new request.
C13_RetryAfterFailure ==
  /\ [](AnswerFailure(lastEvent) =>
         /\ selectedFile # NoFile
         /\ ~isLoading
         /\ (currentPage = "predict" => ENABLED Submit))
  /\ [][/\ AnswerFailure(lastEvent') => selectedFile' = selectedFile
        /\ (lastEvent'.op = "submit" /\ error = FailedMsg)
             => (isLoading' /\ inflight' = <<Request(selectedFile)>>)]_vars

C13_Witness ==
  /\ Submission(lastEvent)
  /\ lastEvent.pre.error = FailedMsg
  /\ isLoading
  /\ inflight = <<Request(selectedFile)>>

\* some file is chosen in the file input
SelectSomeFile == \E fs \in FileLists : Len(fs) > 0 /\ handleFileChange(fs)

\* C14: no state is terminal: whenever the predict page is the current page
\* a file selection is accepted, also while a request is in flight, and a
\* valid selection made then replaces the selected file and leaves the
\* request and isLoading as they are.
C14_SelectFileAlwaysAccepted ==
  /\ [](currentPage = "predict" => ENABLED SelectSomeFile)
  /\ [][(ValidSelection(lastEvent') /\ isLoading) =>
          /\ selectedFile' = lastEvent'.files[1]
          /\ isLoading'
          /\ inflight' = inflight]_vars

\* C15: the 2xx answer to a request is stored as the result also when the
\* file of that request is no longer the selected file (a valid selection
\* was made while the request was in flight): the late answer is not
\* dropped as stale.
C15_LateAnswerApplied ==
  (Answer2xx(lastEvent) /\ lastEvent.img # selectedFile) =>
    /\ result # NoResult
    /\ result.image_url = lastEvent.body.image_url
    /\ lastEvent.body.prediction = "Corn___Common_rust"
         => result.prediction = "Corn___Common_rust"

C15_Witness ==
  /\ Answer2xx(lastEvent)
  /\ lastEvent.img = "leaf1.png"
  /\ selectedFile = "leaf2.jpg"
  /\ previewUrl.file = "leaf2.jpg"
  /\ ~lastEvent.pre.hadResult
  /\ result # NoResult
  /\ result.prediction = "Corn___Common_rust"

\* C16: isLoading goes from true to false only in the step that delivers
\* the answer (success or failure) of the request in flight; no file
\* selection, drag, navigation or submit ends Submitting, so without an
\* answer the controller stays in Submitting.
C16_OnlyTheAnswerEndsSubmitting ==
  /\ [][(isLoading /\ lastEvent'.op # "response") =>
          (isLoading' /\ inflight' = inflight)]_vars
  /\ [][(isLoading /\ ~isLoading') =>
          /\ lastEvent'.op = "response"
          /\ inflight # <<>>
          /\ lastEvent'.img = inflight[1].img
          /\ inflight' = Tail(inflight)]_vars

C16_Witness ==
  /\ lastEvent.op = "navigate"
  /\ lastEvent.pre.wasLoading
  /\ currentPage = "about"
  /\ selectedFile # inflight[1].img
  /\ isLoading

\* C17: the preview handle of a superseded selection is released: at most
\* one object URL is created and not yet revoked, and none is once the
\* component is unmounted.
C17_AtMostOneLivePreview ==
  /\ Cardinality(LiveObjectUrls) <= 1
  /\ ~Mounted => LiveObjectUrls = {}

\* the reference procedure, steps 1 and 2 in one pass from position i:
\* three underscores in a row give " - ", any other underscore a space
RECURSIVE RefReplace(_, _)
RefReplace(s, i) ==
  IF i > Len(s) THEN <<>>
  ELSE IF i + 2 <= Len(s) /\ \A k \in i..(i + 2) : s[k] = "_"
    THEN <<" ", "-", " ">> \o RefReplace(s, i + 3)
    ELSE <<IF s[i] = "_" THEN " " ELSE s[i]>> \o RefReplace(s, i + 1)

\* step 3 as the claim has it: the first character of each word between
\* spaces is upper-cased
RefCapWords(t) ==
  [i \in 1..Len(t) |->
     IF t[i] # " " /\ (i = 1 \/ t[i - 1] = " ")
       THEN ToUpperCase(t[i])
       ELSE t[i]]

IsLetterOrDigit(c) ==
  c \in Range(LowerCase) \cup Range(UpperCase) \cup Range(Digits)

\* step 3 as amended: the first character of each run of letters and
\* digits is upper-cased
RefCapRuns(t) ==
  [i \in 1..Len(t) |->
     IF IsLetterOrDigit(t[i]) /\ (i = 1 \/ ~IsLetterOrDigit(t[i - 1]))
       THEN ToUpperCase(t[i])
       ELSE t[i]]

TomatoLateBlight == <<"T","o","m","a","t","o"," ","-"," ","L","a","t","e"," ","B","l","i","g","h","t">>
AppleHealthy == <<"A","p","p","l","e"," ","-"," ","H","e","a","l","t","h","y">>
BackgroundWithoutLeaves == <<"B","a","c","k","g","r","o","u","n","d"," ","W","i","t","h","o","u","t"," ","L","e","a","v","e","s">>

\* the three examples of the claim
ExamplesFormatted ==
  /\ rawLabel = TomatoLateBlightRaw => shownName = TomatoLateBlight
  /\ rawLabel = AppleHealthyRaw => shownName = AppleHealthy
  /\ rawLabel = BackgroundRaw => shownName = BackgroundWithoutLeaves

\* C18 (as stated): formatDiseaseName returns what the reference procedure
\* returns: three underscores become " - ", every other underscore a space,
\* and the first character of each whitespace-delimited word is upper-cased;
\* the three examples come out as given.
C18_FormatIsReferenceByWords ==
  shownName # NotFormatted =>
    /\ shownName = RefCapWords(RefReplace(rawLabel, 1))
    /\ ExamplesFormatted

\* C18 (amended): as stated, but step 3 upper-cases the first character of
\* each run of letters and digits: every letter that starts the string or
\* follows a character that is neither a letter nor a digit (a space, but
\* also '(', '-' or ','); the three examples come out as given.
C18_FormatIsReferenceByRuns ==
  shownName # NotFormatted =>
    /\ shownName = RefCapRuns(RefReplace(rawLabel, 1))
    /\ ExamplesFormatted

C18_Witness ==
  /\ rawLabel = CornMaizeRaw
  /\ shownName = <<"C","o","r","n"," ","(","M","a","i","z","e",")"," ","-"," ","C","o","m","m","o","n"," ","R","u","s","t"," ">>

HealthyUpper == <<"H","E","A","L","T","H","Y">>

\* the label holds h-e-a-l-t-h-y in a row, each letter in either case
ContainsHealthyAnyCase(s) ==
  \E i \in 1..(Len(s) - 6) :
    \A k \in 1..7 : s[i + k - 1] \in {Healthy[k], HealthyUpper[k]}

HealthyLook ==
  [icon |-> "CheckCircle", color |-> "text-emerald-400",
   bgColor |-> "bg-emerald-500/20", borderColor |-> "border-emerald-500/30"]
DiseasedLook ==
  [icon |-> "AlertCircle", color |-> "text-red-400",
   bgColor |-> "bg-red-500/20", borderColor |-> "border-red-500/30"]

\* C19: the isHealthy flag getHealthStatus returns is true exactly when the
\* label contains 'healthy' in any letter casing, and the icon and colour
\* fields are the one or the other fixed set according to the flag.
C19_HealthyIffContainsAnyCase ==
  health # NotClassified =>
    /\ health.isHealthy = ContainsHealthyAnyCase(rawLabel)
    /\ [f \in {"icon", "color", "bgColor", "borderColor"} |-> health[f]]
         = (IF health.isHealthy THEN HealthyLook ELSE DiseasedLook)

C19_Witness ==
  /\ rawLabel = <<"x","H","E","A","L","t","h","y">>
  /\ health # NotClassified
  /\ health.isHealthy
  /\ health.icon = "CheckCircle"

\* C20: if every request is eventually answered or fails, Submitting is
\* always left: isLoading true leads to isLoading false with a result
\* stored or the fixed failure message set, whatever selections and
\* navigations happen in between.
C20_SubmittingEventuallyEnds ==
  isLoading ~> (~isLoading /\ (result # NoResult \/ error = FailedMsg))

C20_Witness ==
  /\ AnswerFailure(lastEvent)
  /\ lastEvent.pre.wasLoading
  /\ lastEvent.img # selectedFile
  /\ currentPage = "home"
  /\ ~isLoading
  /\ result = NoResult
  /\ error = FailedMsg

\* the controller values the variants are compared on
ControllerOf(c) ==
  [selectedFile |-> c.selectedFile, previewSet |-> c.previewUrl # NoUrl,
   isLoading |-> c.isLoading, result |-> c.result, error |-> c.error,
   requests |-> c.inflight]

ControllerOfApp ==
  [selectedFile |-> selectedFile, previewSet |-> previewUrl # NoUrl,
   isLoading |-> isLoading, result |-> result, error |-> error,
   requests |-> inflight]

\* C21: run side by side on the same selectFile, submit, responseOk and
\* responseError events, the controllers of src/src/App.tsx,
\* src/unnamed/part_000 and src/unnamed/part_001 hold the same selectedFile,
\* preview set or not, isLoading, result and error and have issued the same
\* requests; and where App.tsx shows its upload page the three offer the
\* same events.
C21_VariantsAgree ==
  /\ ControllerOf(part000) = ControllerOfApp
  /\ ControllerOf(part001) = ControllerOfApp
  /\ currentPage = "predict" =>
       /\ part000_UploadShown(part000) = Mounted
       /\ part001_UploadShown(part001) = Mounted
       /\ part000_SubmitOffered(part000) = (SubmitRendered /\ SubmitEnabled)
       /\ part001_SubmitOffered(part001) = (SubmitRendered /\ SubmitEnabled)

C21_Witness ==
  /\ Answer2xx(lastEvent)
  /\ lastEvent.pre.hadError
  /\ lastEvent.img = "leaf1.png"
  /\ part000.selectedFile = "leaf2.jpg"
  /\ part001.result.prediction = "Potato___healthy"
  /\ part001.error = InvalidFileMsg
  /\ ~part000.isLoading
  /\ part000.inflight = <<>>

\* C22: whenever result is populated its label is a present string, so the
\* display step never meets a result whose label is absent; this covers the
\* 2xx answer that carries neither prediction nor data.
C22_StoredLabelIsPresent ==
  /\ result # NoResult => result.prediction # Undefined
  /\ ~RenderThrows

\* C23: the number of requests in flight is always 0 or 1, and it is 1
\* exactly when isLoading is true.
C23_LoadingIffOneRequest ==
  /\ Len(inflight) \in {0, 1}
  /\ (Len(inflight) = 1) <=> isLoading

C23_Witness ==
  /\ lastEvent.op = "change"
  /\ lastEvent.pre.wasLoading
  /\ isLoading
  /\ Len(inflight) = 1
  /\ inflight[1].img # selectedFile

\* C24: once a valid file has been selected selectedFile is never null
\* again; the preview handle is set exactly when selectedFile is non-null
\* and was then created from the selected file; and only a valid selection
\* changes selectedFile or the preview.
C24_SelectionAndPreviewInStep ==
  /\ []((previewUrl # NoUrl) <=> (selectedFile # NoFile))
  /\ [](selectedFile # NoFile => previewUrl.file = selectedFile)
  /\ [][/\ selectedFile # NoFile => selectedFile' # NoFile
        /\ ~ValidSelection(lastEvent')
             => UNCHANGED <<selectedFile, previewUrl>>]_vars

C24_Witness ==
  /\ AnswerFailure(lastEvent)
  /\ lastEvent.img = "leaf1.png"
  /\ selectedFile = "leaf2.jpg"
  /\ previewUrl = [id |-> 2, file |-> "leaf2.jpg"]
  /\ error = FailedMsg

\* C25: the file a request carries is the file that was selected when
\* submit was invoked; a selection made while the request is in flight
\* neither changes the outstanding request nor issues a second one, and the
\* answer that arrives is the one for the file submitted.
C25_RequestKeepsSubmittedFile ==
  /\ [](Submission(lastEvent) =>
          /\ inflight # <<>>
          /\ inflight[Len(inflight)].img = lastEvent.file)
  /\ [][/\ (Selected(lastEvent') /\ isLoading) => inflight' = inflight
        /\ (lastEvent'.op = "response" /\ inflight # <<>>)
             => lastEvent'.img = inflight[1].img]_vars

C25_Witness ==
  /\ ValidSelection(lastEvent)
  /\ lastEvent.pre.wasLoading
  /\ selectedFile = "leaf2.jpg"
  /\ inflight = <<Request("leaf1.png")>>
  /\ isLoading

\* C26: a responseError event changes only error and isLoading: the
\* selected file, the preview and a result stored by an earlier successful
\* submission are left as they were.
C26_FailureKeepsFileAndResult ==
  [][AnswerFailure(lastEvent') =>
       /\ UNCHANGED <<selectedFile, previewUrl, result>>
       /\ UNCHANGED <<currentPage, isDragOver, urlCount>>]_vars

C26_Witness ==
  /\ AnswerFailure(lastEvent)
  /\ lastEvent.pre.hadResult
  /\ lastEvent.pre.wasLoading
  /\ result # NoResult
  /\ result.prediction = "Corn___Common_rust"
  /\ error = FailedMsg
  /\ ~isLoading

\* C27: a responseOk event changes only result and isLoading: the selected
\* file, the preview and the error are left as they were, so the error of an
\* invalid selection made while the request was in flight is still set
\* after the result has arrived.
C27_SuccessKeepsFileAndError ==
  [][Answer2xx(lastEvent') =>
       /\ UNCHANGED <<selectedFile, previewUrl, error>>
       /\ UNCHANGED <<currentPage, isDragOver, urlCount>>]_vars

C27_Witness ==
  /\ Answer2xx(lastEvent)
  /\ lastEvent.pre.wasLoading
  /\ lastEvent.pre.error = InvalidFileMsg
  /\ error = InvalidFileMsg
  /\ result # NoResult
  /\ ~isLoading

\* C28: currentPage starts at 'home' and is always home, predict or about;
\* a navigation changes currentPage only (selectedFile, preview, isLoading,
\* result, error and the request in flight stay); and an answer that arrives
\* while another page than predict is shown is applied all the same.
C28_NavigationChangesOnlyThePage ==
  /\ [](currentPage \in {"home", "predict", "about"})
  /\ [](lastEvent = NoEvent => currentPage = "home")
  /\ [][lastEvent'.op = "navigate" =>
          /\ currentPage' = lastEvent'.page
          /\ UNCHANGED <<selectedFile, previewUrl, isLoading, result, error>>
          /\ UNCHANGED <<inflight, urlCount, isDragOver>>]_vars
  /\ [][(lastEvent'.op = "response" /\ currentPage # "predict") =>
          /\ ~isLoading'
          /\ Answer2xx(lastEvent') =>
               /\ result' # NoResult
               /\ result'.image_url = lastEvent'.body.image_url
               /\ result'.prediction =
                    (IF lastEvent'.body.prediction \in {Undefined, ""}
                       THEN lastEvent'.body.data
                       ELSE lastEvent'.body.prediction)
          /\ AnswerFailure(lastEvent') => error' = FailedMsg]_vars

C28_Witness ==
  /\ Answer2xx(lastEvent)
  /\ lastEvent.pre.wasLoading
  /\ ~lastEvent.pre.hadResult
  /\ currentPage = "about"
  /\ selectedFile = "leaf1.png"
  /\ previewUrl.file = "leaf1.png"
  /\ result # NoResult
  /\ result.prediction = "Corn___Common_rust"
  /\ ~isLoading

\* C29: a drop always clears the drag-over flag and hands only the first
\* dropped file to selectFile (the files after it play no part); a drop or
\* a file-input change that carries no file leaves selectedFile, preview,
\* result and error unchanged and raises no error.
C29_DropTakesFirstFileOnly ==
  [][/\ lastEvent'.op = "drop" => ~isDragOver'
     /\ (lastEvent'.op = "drop" /\ Len(lastEvent'.files) > 0) =>
          IF lastEvent'.files[1] \in ImageFiles
            THEN /\ selectedFile' = lastEvent'.files[1]
                 /\ previewUrl'.file = lastEvent'.files[1]
                 /\ result' = NoResult
                 /\ error' = ""
            ELSE /\ error' = InvalidFileMsg
                 /\ UNCHANGED <<selectedFile, previewUrl, result>>
     /\ (lastEvent'.op \in {"drop", "change"} /\ Len(lastEvent'.files) = 0)
          => UNCHANGED <<selectedFile, previewUrl, result, error>>]_vars

C29_Witness ==
  /\ lastEvent.op = "drop"
  /\ lastEvent.files = <<"notes.txt", "leaf1.png">>
  /\ lastEvent.pre.wasDragOver
  /\ ~lastEvent.pre.hadError
  /\ ~isDragOver
  /\ selectedFile = "leaf2.jpg"
  /\ error = InvalidFileMsg

====
